---------------------------- MODULE Spec2Model ----------------------------
(***************************************************************************)
(* Model of src/app.py: a Streamlit annotation form.  Every interaction of *)
(* a browser session re-executes the script from its first line: pull of   *)
(* the remote CSV, login, load of the annotation table, selection of an    *)
(* item and, when a Yes/No button was clicked, the click handler.          *)
(*                                                                         *)
(* Data representation.                                                    *)
(*   - a DataFrame is [cols, rows]: cols is the set of column names other  *)
(*     than ID (pandas keeps them in an order no code of app.py reads),    *)
(*     rows a sequence of [ID, cells], cells mapping each column to an     *)
(*     optional number: <<>> is NA/NaN, <<n>> is the number n;             *)
(*   - a CSV file is the same shape with every cell a text;                *)
(*   - a column name is a sequence of characters, so that str.strip of the *)
(*     username is computed, not assumed.                                  *)
(***************************************************************************)
EXTENDS Integers, Sequences, FiniteSets, TLC

\* ------------------------------------------------------------------ bounds
\* number of entries of sample_200.json that the model keeps
NumSamples == 2
\* number of user interactions with an open page (username typed, button
\* pressed), all sessions together
MaxActs == 4

\* ------------------------------------------------------------ sample store
IdPool == <<"42", "43", "44", "45", "46">>

\* load_samples()["id"].astype(str).tolist(): the ordered, unique Sample ids
SampleIds == SubSeq(IdPool, 1, NumSamples)

Range(s) == {s[i] : i \in DOMAIN s}

IdSet == Range(SampleIds)

\* ------------------------------------------------------------ column names
GPT == <<"G", "P", "T">>
SP == " "
UserA == <<"a">>
UserB == <<"b">>

\* what a user can type into the Username text input
Inputs == {<<SP>>, <<SP, "a", SP>>, UserB}

RECURSIVE LStrip(_)
LStrip(s) == IF s # <<>> /\ Head(s) = SP THEN LStrip(Tail(s)) ELSE s

RECURSIVE RStrip(_)
RStrip(s) == IF s # <<>> /\ s[Len(s)] = SP THEN RStrip(SubSeq(s, 1, Len(s) - 1)) ELSE s

\* str.strip()
Strip(s) == RStrip(LStrip(s))

\* ------------------------------------------------------------------- cells
NA == <<>>
Num(n) == <<n>>
IsNA(v) == v = NA

\* read_csv: the texts pandas reads as a missing value
NaTexts == {"", "NA", "nan", "NaN", "null"}

\* read_csv of a numeric cell
ParseCell(t) ==
    IF t \in NaTexts THEN NA
    ELSE IF t \in {"0", "0.0"} THEN Num(0)
    ELSE Num(1)

\* to_csv(na_rep="0"): a missing value is written as 0
WriteCellNaZero(v) ==
    IF IsNA(v) THEN "0"
    ELSE IF v[1] = 0 THEN "0"
    ELSE "1"

\* to_csv of a cell: a missing value is written as the empty text
WriteCell(v) ==
    IF IsNA(v) THEN ""
    ELSE IF v[1] = 0 THEN "0"
    ELSE "1"

\* read_csv(dtype={"ID": str}) followed by astype(str): a missing ID reads as
\* NaN and becomes the string "nan"
ParseId(t) == IF t \in NaTexts THEN "nan" ELSE t

\* ------------------------------------------------------------------ tables
Absent == [absent |-> TRUE]

Row(id, cells) == [ID |-> id, cells |-> cells]

Table(cols, rows) == [cols |-> cols, rows |-> rows]

\* pd.read_csv(CSV_PATH, dtype={"ID": str}); ann_df["ID"].astype(str)
ReadCsv(f) ==
    Table(f.cols,
          [i \in DOMAIN f.rows |->
              Row(ParseId(f.rows[i].ID),
                  [c \in f.cols |-> ParseCell(f.rows[i].cells[c])])])

\* df.to_csv(CSV_PATH, index=False)
ToCsv(df) ==
    Table(df.cols,
          [i \in DOMAIN df.rows |->
              Row(df.rows[i].ID,
                  [c \in df.cols |-> WriteCell(df.rows[i].cells[c])])])

\* drop_duplicates left out: every row is kept
KeepDuplicates(rows) == rows

\* drop_duplicates(subset=["ID"], keep="first")
DropDuplicates(rows) ==
    LET keep(i) == \A j \in 1..(i - 1) : rows[j].ID # rows[i].ID
        RECURSIVE build(_)
        build(i) == IF i = 0 THEN <<>>
                    ELSE IF keep(i) THEN Append(build(i - 1), rows[i])
                    ELSE build(i - 1)
    IN build(Len(rows))

\* ann_df[ann_df["ID"].isin(ids)]
KeepKnown(rows) == SelectSeq(rows, LAMBDA r : r.ID \in IdSet)

\* pd.DataFrame({"ID": ids}).merge(ann_df, on="ID", how="left"): for each
\* Sample id in order, every row of ann_df with that ID, or one all-NA row
LeftMerge(cols, rows) ==
    LET RECURSIVE build(_)
        build(i) ==
            IF i = 0 THEN <<>>
            ELSE LET id == SampleIds[i]
                     hits == SelectSeq(rows, LAMBDA r : r.ID = id)
                 IN build(i - 1) \o
                    (IF hits = <<>> THEN <<Row(id, [c \in cols |-> NA])>> ELSE hits)
    IN build(Len(SampleIds))

\* if "GPT" not in columns: GPT = 0;  GPT.fillna(0).astype(int)
FixGpt(df) ==
    Table(df.cols \cup {GPT},
          [i \in DOMAIN df.rows |->
              Row(df.rows[i].ID,
                  [c \in df.cols \cup {GPT} |->
                      IF c = GPT
                      THEN (IF GPT \in df.cols /\ ~IsNA(df.rows[i].cells[GPT])
                            THEN df.rows[i].cells[GPT] ELSE Num(0))
                      ELSE df.rows[i].cells[c]])])

\* a synthesized table whose GPT column starts at 1
FreshTableOnes ==
    Table({GPT}, [i \in DOMAIN SampleIds |-> Row(SampleIds[i], (GPT :> Num(1)))])

\* the table synthesized when CSV_PATH does not exist
FreshTable ==
    Table({GPT}, [i \in DOMAIN SampleIds |-> Row(SampleIds[i], (GPT :> Num(0)))])

\* load_annotations without its steps 2 and 3 (lines 104-108): the rows of
\* the file are kept as they are, unknown ids included, missing ids not added
LoadAnnotationsRaw(file) ==
    LET raw == IF file = Absent THEN FreshTable ELSE ReadCsv(file)
    IN FixGpt(Table(raw.cols, DropDuplicates(raw.rows)))

\* load_annotations(), given the content of CSV_PATH
LoadAnnotations(file) ==
    LET raw == IF file = Absent THEN FreshTable ELSE ReadCsv(file)
        dedup == DropDuplicates(raw.rows)
        known == KeepKnown(dedup)
        merged == LeftMerge(raw.cols, known)
    IN FixGpt(Table(raw.cols, merged))

\* save_annotations(df): the content written to CSV_PATH
SaveAnnotations(df) == ToCsv(Table(df.cols, DropDuplicates(df.rows)))

\* ann_df[username] = pd.NA
AddColumn(df, u) ==
    Table(df.cols \cup {u},
          [i \in DOMAIN df.rows |->
              Row(df.rows[i].ID,
                  [c \in df.cols \cup {u} |->
                      IF c = u THEN NA ELSE df.rows[i].cells[c]])])

\* ------------------------------------------------- progress and selection
\* user_col.notna().sum()
AlreadyLabeled(df, u) ==
    Cardinality({i \in DOMAIN df.rows : ~IsNA(df.rows[i].cells[u])})

\* remaining computed one too low
RemainingOffByOne(df, u) == Len(df.rows) - AlreadyLabeled(df, u) - 1

\* remaining = total_entries - already_labeled
Remaining(df, u) == Len(df.rows) - AlreadyLabeled(df, u)

\* the ids of a table's rows, in row order
Ids(df) == [i \in DOMAIN df.rows |-> df.rows[i].ID]

\* ann_df["ID"].tolist(): the isna filter left out
RemainingIdsAll(df, u) == Ids(df)

\* ann_df.loc[user_col.isna(), "ID"].tolist()
RemainingIds(df, u) ==
    LET RECURSIVE build(_)
        build(i) == IF i = 0 THEN <<>>
                    ELSE IF IsNA(df.rows[i].cells[u])
                         THEN Append(build(i - 1), df.rows[i].ID)
                         ELSE build(i - 1)
    IN build(Len(df.rows))

\* st.session_state values of "current_id": the key is absent, or holds None
CurAbsent == "<absent>"
CurNone == "<None>"

\* only the first half of the test of line 239
NeedsPickIfAbsent(held, rem) == held = CurAbsent

\* "current_id" not in st.session_state or
\* st.session_state["current_id"] not in remaining_ids
NeedsPick(held, rem) == held = CurAbsent \/ held \notin Range(rem)

\* samples_df[samples_df["id"] == current_id].empty
SampleMissing(cur) == cur \notin IdSet

\* ---------------------------------------------------------- click handler
\* mask = (ann_df_local["ID"] == current_id)
Mask(df, cur) == {i \in DOMAIN df.rows : df.rows[i].ID = cur}

\* ann_df_local.loc[mask, username].iloc[0]
CurrentVal(df, cur, u) ==
    LET first == CHOOSE i \in Mask(df, cur) : \A j \in Mask(df, cur) : i <= j
    IN df.rows[first].cells[u]

\* ann_df_local[username] = label_value: the mask left out
SetLabelWholeColumn(df, cur, u, v) ==
    Table(df.cols,
          [i \in DOMAIN df.rows |->
              Row(df.rows[i].ID, [df.rows[i].cells EXCEPT ![u] = Num(v)])])

\* ann_df_local.loc[mask, username] = label_value
SetLabel(df, cur, u, v) ==
    Table(df.cols,
          [i \in DOMAIN df.rows |->
              IF i \in Mask(df, cur)
              THEN Row(df.rows[i].ID, [df.rows[i].cells EXCEPT ![u] = Num(v)])
              ELSE df.rows[i]])

\* load_annotations() plus the in-memory user column of lines 287-288
ReloadForUser(file, u) ==
    LET df == LoadAnnotations(file)
    IN IF u \notin df.cols THEN AddColumn(df, u) ELSE df

\* ------------------------------------------------------------------- state
Sessions == {"s1", "s2"}

NoDf == [none |-> TRUE]

VARIABLES
    localFile,    \* content of CSV_PATH on the server's disk, or Absent
    remoteFile,   \* content of REMOTE_CSV_PATH on Dropbox, or Absent
    pc,           \* per session: position of the running script, or "idle"
    input,        \* per session: text of the Username input widget
    ssCurrentId,  \* per session: st.session_state["current_id"]
    username,     \* per session: the script variable username
    annDf,        \* per session: the script variable ann_df
    remainingIds, \* per session: the script variable remaining_ids
    annLocal,     \* per session: ann_df_local of update_label_and_rerun
    clicked,      \* per session: the label of the button pressed, or NA
    msgs,         \* per session: what the current run has rendered
    dlBuf,        \* per session: res.content of download_from_dropbox
    ulBuf,        \* per session: f.read() of upload_to_dropbox
    lastPush,     \* per session: what became of the push of its last click
    acts,         \* number of user interactions with an open page so far
    pulls,        \* number of calls of download_from_dropbox (saturating)
    loadedFirst,  \* TRUE when a load_annotations ran before any pull
    firstLabel,   \* per (id, user): the first value a click handler saved
    probeIn,      \* argument of the table functions applied on their own
    probeOut,     \* their result
    probePc       \* how far that application has got

vars == <<localFile, remoteFile, pc, input, ssCurrentId, username,
          annDf, remainingIds, annLocal, clicked, msgs, dlBuf, ulBuf, lastPush,
          acts, pulls, loadedFirst, firstLabel, probeIn, probeOut, probePc>>

\* the variables of the table functions applied on their own
probeVars == <<probeIn, probeOut, probePc>>

\* the usernames the inputs give
Users == {Strip(raw) : raw \in Inputs} \ {<<>>}

\* the counter pulls stops counting here
PullCap == 2

\* --------------------------------------------------------- initial content
\* a remote copy with a duplicate id, an unknown id, a blank id, no row for
\* "43", and float-formatted cells
DirtyFile ==
    Table({GPT, UserA},
          << Row("42", (GPT :> "1") @@ (UserA :> "1.0")),
             Row("99", (GPT :> "0") @@ (UserA :> "0")),
             Row("42", (GPT :> "0") @@ (UserA :> "0")),
             Row("",   (GPT :> "")  @@ (UserA :> "1")) >>)

\* a local file without GPT column, rows out of Sample order
LegacyFile ==
    Table({UserB},
          << Row("43", (UserB :> "")),
             Row("42", (UserB :> "0")) >>)

\* <<local file, remote copy>> when the server process starts: a first
\* deployment, or files left by earlier versions and runs
InitFiles == {<<Absent, Absent>>, <<LegacyFile, DirtyFile>>}

Init ==
    /\ \E f \in InitFiles : localFile = f[1] /\ remoteFile = f[2]
    /\ pc = [s \in Sessions |-> "closed"]
    /\ input = [s \in Sessions |-> <<>>]
    /\ ssCurrentId = [s \in Sessions |-> CurAbsent]
    /\ username = [s \in Sessions |-> <<>>]
    /\ annDf = [s \in Sessions |-> NoDf]
    /\ remainingIds = [s \in Sessions |-> <<>>]
    /\ annLocal = [s \in Sessions |-> NoDf]
    /\ clicked = [s \in Sessions |-> NA]
    /\ msgs = [s \in Sessions |-> {}]
    /\ dlBuf = [s \in Sessions |-> Absent]
    /\ ulBuf = [s \in Sessions |-> Absent]
    /\ lastPush = [s \in Sessions |-> "none"]
    /\ acts = 0
    /\ pulls = 0
    /\ loadedFirst = FALSE
    /\ firstLabel = [k \in IdSet \X Users |-> NA]
    /\ probeIn = NoDf
    /\ probeOut = NoDf
    /\ probePc = "off"

\* ------------------------------------------------------------ script runs
\* a new execution of the script starts with fresh module globals
StartRun(s, click) ==
    /\ pc' = [pc EXCEPT ![s] = "download"]
    /\ clicked' = [clicked EXCEPT ![s] = click]
    /\ msgs' = [msgs EXCEPT ![s] = {}]
    /\ username' = [username EXCEPT ![s] = <<>>]
    /\ annDf' = [annDf EXCEPT ![s] = NoDf]
    /\ remainingIds' = [remainingIds EXCEPT ![s] = <<>>]
    /\ annLocal' = [annLocal EXCEPT ![s] = NoDf]

\* the script stops (st.stop, or the end of the file): the page waits
EndRun(s, shown) ==
    /\ pc' = [pc EXCEPT ![s] = "idle"]
    /\ msgs' = [msgs EXCEPT ![s] = msgs[s] \cup shown]
    /\ clicked' = [clicked EXCEPT ![s] = NA]

\* the browser opens the page: first run of the session
Open(s) ==
    /\ pc[s] = "closed"
    /\ StartRun(s, NA)
    /\ UNCHANGED <<localFile, remoteFile, input, ssCurrentId,
                   dlBuf, ulBuf, lastPush, acts, pulls, loadedFirst, firstLabel, probeVars>>

\* the user edits the Username text input: the script is run again
TypeUsername(s) ==
    /\ pc[s] = "idle"
    /\ acts < MaxActs
    /\ \E raw \in Inputs \ {input[s]} : input' = [input EXCEPT ![s] = raw]
    /\ acts' = acts + 1
    /\ lastPush' = [lastPush EXCEPT ![s] = "none"]
    /\ StartRun(s, NA)
    /\ UNCHANGED <<localFile, remoteFile, ssCurrentId,
                   dlBuf, ulBuf, pulls, loadedFirst, firstLabel, probeVars>>

\* the user presses Yes (1) or No (0): the script is run again with the
\* button's value True
Click(s) ==
    /\ pc[s] = "idle"
    /\ "buttons" \in msgs[s]
    /\ acts < MaxActs
    /\ acts' = acts + 1
    /\ \E v \in {0, 1} : StartRun(s, Num(v))
    /\ lastPush' = [lastPush EXCEPT ![s] = "none"]
    /\ UNCHANGED <<localFile, remoteFile, input, ssCurrentId,
                   dlBuf, ulBuf, pulls, loadedFirst, firstLabel, probeVars>>

\* ------------------------------------------------------------------ login
\* not username: the strip left out
IsEmpty(raw) == raw = <<>>

\* not username.strip()
IsBlank(raw) == Strip(raw) = <<>>

\* sidebar login, lines 134-149, run by the session right after its pull:
\* st.stop() on a blank username, else on to the load of line 206
Login(s) ==
    /\ IF IsBlank(input[s])
       THEN /\ EndRun(s, {"login_warn"})
            /\ UNCHANGED username
       ELSE /\ username' = [username EXCEPT ![s] = Strip(input[s])]
            /\ pc' = [pc EXCEPT ![s] = "load"]
            /\ UNCHANGED <<msgs, clicked>>

\* ------------------------------------------------------------ remote sync
\* download_from_dropbox, lines 28-36: dbx.files_download returns the remote
\* content, or raises (ApiError, or any other exception) and the function
\* returns False; the script then goes on to the login
DlFetch(s) ==
    /\ pc[s] = "download"
    /\ pulls' = IF pulls < PullCap THEN pulls + 1 ELSE pulls
    /\ \/ /\ remoteFile # Absent
          /\ dlBuf' = [dlBuf EXCEPT ![s] = remoteFile]
          /\ pc' = [pc EXCEPT ![s] = "dl_write"]
          /\ UNCHANGED <<msgs, clicked, username>>
       \/ /\ Login(s)
          /\ UNCHANGED dlBuf
    /\ UNCHANGED <<localFile, remoteFile, input, ssCurrentId, annDf,
                   remainingIds, annLocal, ulBuf, lastPush, acts, loadedFirst,
                   firstLabel, probeVars>>

\* download_from_dropbox, lines 38-40: the content is written to the local
\* file; the script then goes on to the login
DlWrite(s) ==
    /\ pc[s] = "dl_write"
    /\ localFile' = dlBuf[s]
    /\ dlBuf' = [dlBuf EXCEPT ![s] = Absent]
    /\ Login(s)
    /\ UNCHANGED <<remoteFile, input, ssCurrentId, annDf, remainingIds,
                   annLocal, ulBuf, lastPush, acts, pulls, loadedFirst, firstLabel, probeVars>>

\* -------------------------------------------------------------- selection
\* sections 5-7, lines 217-275, and the dispatch of lines 309-313, run on
\* the table df that the script holds in ann_df
Select(s, df) ==
    IF username[s] \notin df.cols
    THEN \* ann_df[username] raises KeyError: the run ends with a traceback
         /\ EndRun(s, {"exception"})
         /\ UNCHANGED <<remainingIds, ssCurrentId>>
    ELSE IF Remaining(df, username[s]) = 0
    THEN /\ EndRun(s, {"complete"})
         /\ UNCHANGED <<remainingIds, ssCurrentId>>
    ELSE LET rem == RemainingIds(df, username[s])
         IN /\ remainingIds' = [remainingIds EXCEPT ![s] = rem]
            /\ IF NeedsPick(ssCurrentId[s], rem)
               THEN \E id \in Range(rem) :
                       ssCurrentId' = [ssCurrentId EXCEPT ![s] = id]
               ELSE UNCHANGED ssCurrentId
            /\ IF SampleMissing(ssCurrentId'[s])
               THEN EndRun(s, {"err_sample"})
               ELSE IF clicked[s] = NA
               THEN EndRun(s, {"item", "buttons"})
               ELSE /\ msgs' = [msgs EXCEPT ![s] = msgs[s] \cup {"item", "buttons"}]
                    /\ pc' = [pc EXCEPT ![s] = "h_load"]
                    /\ UNCHANGED clicked

\* ---------------------------------------------------- load and user column
\* ann_df = load_annotations(), line 206, and the test of line 209; when the
\* user column exists the script goes on to the selection
Load(s) ==
    /\ pc[s] = "load"
    /\ LET df == LoadAnnotations(localFile)
       IN /\ annDf' = [annDf EXCEPT ![s] = df]
          /\ IF username[s] \notin df.cols
             THEN /\ pc' = [pc EXCEPT ![s] = "add_col"]
                  /\ UNCHANGED <<remainingIds, ssCurrentId, msgs, clicked>>
             ELSE Select(s, df)
    /\ loadedFirst' = (loadedFirst \/ pulls = 0)
    /\ UNCHANGED <<localFile, remoteFile, input, username,
                   annLocal, dlBuf, ulBuf, lastPush, acts, pulls, firstLabel, probeVars>>

\* ann_df[username] = pd.NA; save_annotations(ann_df), lines 210-211
AddColSave(s) ==
    /\ pc[s] = "add_col"
    /\ localFile' = SaveAnnotations(AddColumn(annDf[s], username[s]))
    /\ annDf' = [annDf EXCEPT ![s] = AddColumn(annDf[s], username[s])]
    /\ pc' = [pc EXCEPT ![s] = "add_col_reload"]
    /\ UNCHANGED <<remoteFile, input, ssCurrentId, username,
                   remainingIds, annLocal, clicked, msgs, dlBuf, ulBuf,
                   lastPush, acts, pulls, loadedFirst, firstLabel, probeVars>>

\* ann_df = load_annotations(), line 212, then the selection
AddColReload(s) ==
    /\ pc[s] = "add_col_reload"
    /\ LET df == LoadAnnotations(localFile)
       IN /\ annDf' = [annDf EXCEPT ![s] = df]
          /\ Select(s, df)
    /\ UNCHANGED <<localFile, remoteFile, input, username,
                   annLocal, dlBuf, ulBuf, lastPush, acts, pulls, loadedFirst, firstLabel, probeVars>>

\* ---------------------------------------------------------- click handler
\* the branch of lines 291-293 without its return: current_id is cleared
HAbortClears(s) ==
    /\ EndRun(s, {"err_id"})
    /\ ssCurrentId' = [ssCurrentId EXCEPT ![s] = CurNone]
    /\ UNCHANGED <<username, annDf, remainingIds>>

\* lines 291-293: st.error and return; the script then reaches its end
HAbort(s) ==
    /\ EndRun(s, {"err_id"})
    /\ UNCHANGED <<ssCurrentId, username, annDf, remainingIds>>

\* the handler without the test of line 297: the clicked label is set and
\* saved whatever the cell holds
HLoadAlwaysSaves(s) ==
    /\ pc[s] = "h_load"
    /\ LET df == ReloadForUser(localFile, username[s])
           cur == ssCurrentId[s]
       IN IF Mask(df, cur) = {}
          THEN /\ HAbort(s)
               /\ annLocal' = [annLocal EXCEPT ![s] = df]
          ELSE /\ annLocal' = [annLocal EXCEPT ![s] =
                                 SetLabel(df, cur, username[s], clicked[s][1])]
               /\ pc' = [pc EXCEPT ![s] = "h_save"]
               /\ UNCHANGED <<ssCurrentId, username, annDf, remainingIds,
                              msgs, clicked>>
    /\ loadedFirst' = (loadedFirst \/ pulls = 0)
    /\ UNCHANGED <<localFile, remoteFile, input, dlBuf, ulBuf,
                   lastPush, acts, pulls, firstLabel, probeVars>>

\* the handler with line 305 under the test of line 297: current_id is not
\* cleared when the cell is already set
HLoadKeepsId(s) ==
    /\ pc[s] = "h_load"
    /\ LET df == ReloadForUser(localFile, username[s])
           cur == ssCurrentId[s]
       IN IF Mask(df, cur) = {}
          THEN /\ HAbort(s)
               /\ annLocal' = [annLocal EXCEPT ![s] = df]
               /\ UNCHANGED lastPush
          ELSE IF IsNA(CurrentVal(df, cur, username[s]))
          THEN /\ annLocal' = [annLocal EXCEPT ![s] =
                                 SetLabel(df, cur, username[s], clicked[s][1])]
               /\ pc' = [pc EXCEPT ![s] = "h_save"]
               /\ UNCHANGED <<ssCurrentId, username, annDf, remainingIds,
                              msgs, clicked>>
               /\ UNCHANGED lastPush
          ELSE /\ UNCHANGED ssCurrentId
               /\ lastPush' = [lastPush EXCEPT ![s] = "skipped"]
               /\ StartRun(s, NA)
    /\ loadedFirst' = (loadedFirst \/ pulls = 0)
    /\ UNCHANGED <<localFile, remoteFile, input, dlBuf, ulBuf,
                   acts, pulls, firstLabel, probeVars>>

\* update_label_and_rerun, lines 286-298 and, when the cell is already set,
\* lines 305-306
HLoad(s) ==
    /\ pc[s] = "h_load"
    /\ LET df == ReloadForUser(localFile, username[s])
           cur == ssCurrentId[s]
       IN IF Mask(df, cur) = {}
          THEN /\ HAbort(s)
               /\ annLocal' = [annLocal EXCEPT ![s] = df]
               /\ UNCHANGED lastPush
          ELSE IF IsNA(CurrentVal(df, cur, username[s]))
          THEN /\ annLocal' = [annLocal EXCEPT ![s] =
                                 SetLabel(df, cur, username[s], clicked[s][1])]
               /\ pc' = [pc EXCEPT ![s] = "h_save"]
               /\ UNCHANGED <<ssCurrentId, username, annDf, remainingIds,
                              msgs, clicked>>
               /\ UNCHANGED lastPush
          ELSE /\ ssCurrentId' = [ssCurrentId EXCEPT ![s] = CurNone]
               /\ lastPush' = [lastPush EXCEPT ![s] = "skipped"]
               /\ StartRun(s, NA)
    /\ loadedFirst' = (loadedFirst \/ pulls = 0)
    /\ UNCHANGED <<localFile, remoteFile, input, dlBuf, ulBuf,
                   acts, pulls, firstLabel, probeVars>>

\* the save made a merge: the file is reloaded once more and only the
\* clicked cell is set in it
HSaveMerged(s) ==
    /\ pc[s] = "h_save"
    /\ localFile' = SaveAnnotations(SetLabel(ReloadForUser(localFile, username[s]),
                                             ssCurrentId[s], username[s],
                                             clicked[s][1]))
    /\ firstLabel' =
          LET k == <<ssCurrentId[s], username[s]>>
          IN IF k \in DOMAIN firstLabel /\ IsNA(firstLabel[k])
             THEN [firstLabel EXCEPT ![k] = clicked[s]]
             ELSE firstLabel
    /\ pc' = [pc EXCEPT ![s] = "upload"]
    /\ UNCHANGED <<remoteFile, input, ssCurrentId, username, annDf,
                   remainingIds, annLocal, clicked, msgs, dlBuf, ulBuf,
                   lastPush, acts, pulls, loadedFirst, probeVars>>

\* save_annotations(ann_df_local), line 299
HSave(s) ==
    /\ pc[s] = "h_save"
    /\ localFile' = SaveAnnotations(annLocal[s])
    /\ firstLabel' =
          LET k == <<ssCurrentId[s], username[s]>>
          IN IF k \in DOMAIN firstLabel /\ IsNA(firstLabel[k])
             THEN [firstLabel EXCEPT ![k] = clicked[s]]
             ELSE firstLabel
    /\ pc' = [pc EXCEPT ![s] = "upload"]
    /\ UNCHANGED <<remoteFile, input, ssCurrentId, username, annDf,
                   remainingIds, annLocal, clicked, msgs, dlBuf, ulBuf,
                   lastPush, acts, pulls, loadedFirst, probeVars>>

\* upload_to_dropbox, lines 16-18: open(local_file, "rb") and f.read()
UlRead(s) ==
    /\ pc[s] = "upload"
    /\ ulBuf' = [ulBuf EXCEPT ![s] = localFile]
    /\ pc' = [pc EXCEPT ![s] = "ul_send"]
    /\ UNCHANGED <<localFile, remoteFile, input, ssCurrentId,
                   username, annDf, remainingIds, annLocal, clicked, msgs,
                   dlBuf, lastPush, acts, pulls, loadedFirst, firstLabel, probeVars>>

\* upload_to_dropbox without its try/except: a failing upload ends the run
\* with a traceback, lines 305-306 are not reached
AfterUploadRaises(s, ok) ==
    IF ok
    THEN /\ lastPush' = [lastPush EXCEPT ![s] = "ok"]
         /\ ssCurrentId' = [ssCurrentId EXCEPT ![s] = CurNone]
         /\ StartRun(s, NA)
    ELSE /\ lastPush' = [lastPush EXCEPT ![s] = "warned"]
         /\ EndRun(s, {"exception"})
         /\ UNCHANGED <<ssCurrentId, username, annDf, remainingIds, annLocal>>

\* what the session does once dbx.files_upload has returned (ok) or raised:
\* the st.warning of line 23 when it raised, then lines 305-306
AfterUpload(s, ok) ==
    /\ lastPush' = [lastPush EXCEPT ![s] = IF ok THEN "ok" ELSE "warned"]
    /\ ssCurrentId' = [ssCurrentId EXCEPT ![s] = CurNone]
    /\ StartRun(s, NA)

\* upload_to_dropbox, lines 17-23: dbx.files_upload(..., mode=overwrite)
UlSend(s) ==
    /\ pc[s] = "ul_send"
    /\ \E ok \in BOOLEAN :
          /\ remoteFile' = IF ok THEN ulBuf[s] ELSE remoteFile
          /\ AfterUpload(s, ok)
    /\ ulBuf' = [ulBuf EXCEPT ![s] = Absent]
    /\ UNCHANGED <<localFile, input, dlBuf, acts, pulls,
                   loadedFirst, firstLabel, probeVars>>

\* ---------------------------------------------------------- specification
\* one step of the script run, or one interaction, of session s
Step(s) ==
    \/ Open(s)
    \/ TypeUsername(s)
    \/ Click(s)
    \/ DlFetch(s)
    \/ DlWrite(s)
    \/ Load(s)
    \/ AddColSave(s)
    \/ AddColReload(s)
    \/ HLoad(s)
    \/ HSave(s)
    \/ UlRead(s)
    \/ UlSend(s)

\* the server with every session: their script runs interleave at each
\* access to the local file and to the remote copy
Next == \E s \in Sessions : Step(s)

Spec == Init /\ [][Next]_vars

\* the server with a single browser session
NextSolo == Step("s1")

SpecSolo == Init /\ [][NextSolo]_vars

\* the server when every pull that finds the remote copy and every push
\* succeeds, and the click interactions of the sessions do not overlap: at
\* most one session at a time is between a press of Yes/No and the end of
\* its handler
SyncSucceeds(s) ==
    /\ lastPush'[s] # "warned"
    /\ (pc[s] = "download" /\ remoteFile # Absent) => pc'[s] = "dl_write"

NextTurns ==
    \E s \in Sessions :
        /\ Step(s)
        /\ SyncSucceeds(s)
        /\ Cardinality({t \in Sessions : clicked'[t] # NA}) <= 1

SpecTurns == Init /\ [][NextTurns]_vars

\* the server with a single user working alone: one session, every pull
\* that finds the remote copy and every push succeeds, and the user types a
\* name once and from then on only presses Yes or No. The server runs each
\* script to its end and the user keeps acting while a control is there.
NextAlone ==
    /\ Step("s1")
    /\ SyncSucceeds("s1")
    /\ input'["s1"] # input["s1"]
          => (input["s1"] = <<>> /\ ~IsBlank(input'["s1"]))

SpecAlone == Init /\ [][NextAlone]_vars /\ WF_vars(NextAlone)

\* ----------------------------------- the click handler applied on its own
\* update_label_and_rerun run on any held id, known to the Sample store or
\* not, any username and any label, over each initial local file
HandlerFiles == {Absent, LegacyFile, DirtyFile}

InitHandler ==
    /\ localFile \in HandlerFiles
    /\ remoteFile = Absent
    /\ \E u \in Users, cur \in IdSet \cup {"99"}, v \in {0, 1} :
          /\ pc = [s \in Sessions |-> IF s = "s1" THEN "h_load" ELSE "closed"]
          /\ input = [s \in Sessions |-> IF s = "s1" THEN u ELSE <<>>]
          /\ username = [s \in Sessions |-> IF s = "s1" THEN u ELSE <<>>]
          /\ ssCurrentId = [s \in Sessions |-> IF s = "s1" THEN cur ELSE CurAbsent]
          /\ clicked = [s \in Sessions |-> IF s = "s1" THEN Num(v) ELSE NA]
          /\ annDf = [s \in Sessions |->
                        IF s = "s1" THEN ReloadForUser(localFile, u) ELSE NoDf]
          /\ remainingIds = [s \in Sessions |->
                        IF s = "s1"
                        THEN RemainingIds(ReloadForUser(localFile, u), u)
                        ELSE <<>>]
    /\ msgs = [s \in Sessions |-> IF s = "s1" THEN {"item", "buttons"} ELSE {}]
    /\ annLocal = [s \in Sessions |-> NoDf]
    /\ dlBuf = [s \in Sessions |-> Absent]
    /\ ulBuf = [s \in Sessions |-> Absent]
    /\ lastPush = [s \in Sessions |-> "none"]
    /\ acts = 1
    /\ pulls = 1
    /\ loadedFirst = FALSE
    /\ firstLabel = [k \in IdSet \X Users |-> NA]
    /\ probeIn = NoDf
    /\ probeOut = NoDf
    /\ probePc = "off"

NextHandler == HLoad("s1") \/ HSave("s1") \/ UlRead("s1") \/ UlSend("s1")

SpecHandler == InitHandler /\ [][NextHandler]_vars

\* ------------------------------- the table functions applied on their own
\* rows of a DataFrame handed to save_annotations
MaxProbeRows == 3

ProbeRows ==
    {Row(id, (GPT :> Num(1)) @@ (UserA :> v)) :
        id \in {"42", "43", "99"}, v \in {NA, Num(0), Num(1)}}

RECURSIVE SeqsUpTo(_, _)
SeqsUpTo(S, n) ==
    IF n = 0 THEN {<<>>}
    ELSE LET shorter == SeqsUpTo(S, n - 1)
         IN shorter \cup {Append(q, x) : q \in shorter, x \in S}

ProbeTables == {Table({GPT, UserA}, rows) : rows \in SeqsUpTo(ProbeRows, MaxProbeRows)}

InitTable ==
    /\ localFile = Absent
    /\ remoteFile = Absent
    /\ pc = [s \in Sessions |-> "closed"]
    /\ input = [s \in Sessions |-> <<>>]
    /\ ssCurrentId = [s \in Sessions |-> CurAbsent]
    /\ username = [s \in Sessions |-> <<>>]
    /\ annDf = [s \in Sessions |-> NoDf]
    /\ remainingIds = [s \in Sessions |-> <<>>]
    /\ annLocal = [s \in Sessions |-> NoDf]
    /\ clicked = [s \in Sessions |-> NA]
    /\ msgs = [s \in Sessions |-> {}]
    /\ dlBuf = [s \in Sessions |-> Absent]
    /\ ulBuf = [s \in Sessions |-> Absent]
    /\ lastPush = [s \in Sessions |-> "none"]
    /\ acts = 0
    /\ pulls = 0
    /\ loadedFirst = FALSE
    /\ firstLabel = [k \in IdSet \X Users |-> NA]
    /\ probeIn \in ProbeTables
    /\ probeOut = NoDf
    /\ probePc = "start"

\* save_annotations(probeIn)
ProbeSave ==
    /\ probePc = "start"
    /\ localFile' = SaveAnnotations(probeIn)
    /\ probePc' = "saved"
    /\ UNCHANGED <<remoteFile, pc, input, ssCurrentId, username, annDf,
                   remainingIds, annLocal, clicked, msgs, dlBuf, ulBuf, lastPush,
                   acts, pulls, loadedFirst, firstLabel, probeIn, probeOut>>

\* probeOut = load_annotations()
ProbeLoad ==
    /\ probePc = "saved"
    /\ probeOut' = LoadAnnotations(localFile)
    /\ probePc' = "loaded"
    /\ UNCHANGED <<localFile, remoteFile, pc, input, ssCurrentId, username,
                   annDf, remainingIds, annLocal, clicked, msgs, dlBuf, ulBuf,
                   lastPush, acts, pulls, loadedFirst, firstLabel, probeIn>>

NextTable == ProbeSave \/ ProbeLoad

SpecTable == InitTable /\ [][NextTable]_vars

\* ------------------------------------------------------------- properties
\* the Sample ids whose cell in column u is unset
UnsetIds(df, u) ==
    {id \in IdSet : \E i \in DOMAIN df.rows :
        df.rows[i].ID = id /\ df.rows[i].cells[u] = NA}

\* the cell of (id, u) in the table that a load of file f returns
CellOf(f, id, u) ==
    LET df == LoadAnnotations(f)
        i == CHOOSE j \in DOMAIN df.rows : df.rows[j].ID = id
    IN IF u \in df.cols THEN df.rows[i].cells[u] ELSE NA

\* a text of spaces only, or the empty text
OnlySpaces(raw) == \A i \in DOMAIN raw : raw[i] = SP

\* C1: every table a load has returned, whatever the persisted file held
\* (absent, duplicate ids, unknown ids, ids missing), has exactly the Sample
\* ids as its row ids, once each and in Sample order.
C1_LoadOneRowPerSample ==
    \A s \in Sessions :
        /\ annDf[s] # NoDf => Ids(annDf[s]) = SampleIds
        /\ annLocal[s] # NoDf => Ids(annLocal[s]) = SampleIds

\* C1 witness: a session holds the table loaded from the file that has a
\* duplicate id, unknown ids and no row for a Sample id
C1_Witness ==
    \E s \in Sessions :
        /\ localFile = DirtyFile
        /\ annDf[s] = LoadAnnotations(DirtyFile)

\* C2: set_label keeps the first answer per (id, username): once a click
\* has set the cell of (id, username), every later click for the same id and
\* username is a no-op, so no click handler saves a value for a cell that an
\* earlier click has saved.
C2_FirstAnswerKept ==
    [][\A s \in Sessions :
          (pc[s] = "h_save" /\ pc'[s] = "upload")
          => IsNA(firstLabel[<<ssCurrentId[s], username[s]>>])
      ]_vars

\* C3: first run. A pull that fails while no local file exists leaves no
\* file and ends the run at the login or goes on to the load, without a
\* traceback; the load of an absent file returns one row per Sample id with
\* GPT = 0 and no user column, and the run goes on to add the user column.
C3_FirstRun ==
    [][\A s \in Sessions :
          /\ (pc[s] = "download" /\ pc'[s] \notin {"download", "dl_write"}
                /\ localFile = Absent)
             => /\ localFile' = Absent
                /\ pc'[s] \in {"idle", "load"}
                /\ "exception" \notin msgs'[s]
          /\ (pc[s] = "load" /\ pc'[s] # "load" /\ localFile = Absent)
             => /\ Ids(annDf'[s]) = SampleIds
                /\ annDf'[s].cols = {GPT}
                /\ \A i \in DOMAIN annDf'[s].rows :
                      annDf'[s].rows[i].cells[GPT] = Num(0)
                /\ pc'[s] = "add_col"
                /\ "exception" \notin msgs'[s]
      ]_vars

\* C3 witness: the pull failed, no local file exists, and the session holds
\* the synthesized table, about to add its user column
C3_Witness ==
    \E s \in Sessions :
        /\ pc[s] = "add_col"
        /\ localFile = Absent
        /\ annDf[s].cols = {GPT}
        /\ Ids(annDf[s]) = SampleIds

\* C4: a failing push never blocks the interaction. The step in which the
\* upload fails leaves the local file and the remote copy as they are, ends
\* with current_id cleared and the script started again, shows no traceback,
\* and the handler had saved the clicked label before.
C4_PushFailureSwallowed ==
    [][\A s \in Sessions :
          (pc[s] = "ul_send" /\ lastPush'[s] = "warned")
          => /\ ssCurrentId'[s] = CurNone
             /\ pc'[s] = "download"
             /\ "exception" \notin msgs'[s]
             /\ localFile' = localFile
             /\ remoteFile' = remoteFile
             /\ ~IsNA(firstLabel[<<ssCurrentId[s], username[s]>>])
             /\ \E i \in DOMAIN annLocal[s].rows :
                   /\ annLocal[s].rows[i].ID = ssCurrentId[s]
                   /\ annLocal[s].rows[i].cells[username[s]] = clicked[s]
      ]_vars

\* C4 witness: the push has just failed; the label is in the local file and
\* not in the remote copy, current_id is cleared and the script runs again
C4_Witness ==
    \E s \in Sessions, k \in IdSet \X Users :
        /\ lastPush[s] = "warned"
        /\ pc[s] = "download"
        /\ ssCurrentId[s] = CurNone
        /\ ~IsNA(CellOf(localFile, k[1], k[2]))
        /\ IsNA(CellOf(remoteFile, k[1], k[2]))

\* C5: item selection. Whenever an item is displayed, remaining_ids holds
\* exactly the Sample ids whose cell in the user's column is unset in the
\* table loaded for this render, and current_id is one of them; the render
\* that displays it picked a new id exactly when the held id was none of
\* them.
C5_Selection ==
    [][\A s \in Sessions :
          "item" \in msgs'[s]
          => /\ Range(remainingIds'[s]) = UnsetIds(annDf'[s], username'[s])
             /\ ssCurrentId'[s] \in Range(remainingIds'[s])
             /\ "item" \notin msgs[s]
                => ((ssCurrentId'[s] # ssCurrentId[s])
                      <=> (ssCurrentId[s] \notin UnsetIds(annDf'[s], username'[s])))
      ]_vars

\* C5 witness: an item is displayed to a user who has labeled some Sample
\* ids already, and current_id is one of the others
C5_Witness ==
    \E s \in Sessions :
        /\ "item" \in msgs[s]
        /\ pc[s] = "idle"
        /\ ssCurrentId[s] \in UnsetIds(annDf[s], username[s])
        /\ UnsetIds(annDf[s], username[s]) # IdSet

\* C6: completion is terminal. A render shows the completion state exactly
\* when no cell of the user's column is unset; it then stops: no pick is
\* made, no item and no button is shown, and the only way on is a username
\* edit, which writes no label.
C6_CompletionTerminal ==
    [][\A s \in Sessions :
          /\ "complete" \in msgs'[s]
             => /\ pc'[s] = "idle"
                /\ msgs'[s] \cap {"item", "buttons"} = {}
                /\ ssCurrentId'[s] = ssCurrentId[s]
                /\ UnsetIds(annDf'[s], username'[s]) = {}
          /\ (pc[s] \in {"load", "add_col_reload"} /\ pc'[s] = "idle"
                /\ username[s] \in annDf'[s].cols
                /\ UnsetIds(annDf'[s], username[s]) = {})
             => "complete" \in msgs'[s]
          /\ ("complete" \in msgs[s] /\ pc'[s] # pc[s])
             => /\ clicked'[s] = NA
                /\ localFile' = localFile
                /\ remoteFile' = remoteFile
      ]_vars

\* C6 witness: the completion state is shown to a user who has labeled
\* every Sample id
C6_Witness ==
    \E s \in Sessions :
        /\ "complete" \in msgs[s]
        /\ username[s] \in Users
        /\ \A id \in IdSet : ~IsNA(CellOf(localFile, id, username[s]))

\* C7: while the username input is empty or whitespace the run halts at the
\* login: the session holds no annotation table, shows nothing but the
\* login warning, and its steps pick no current_id, push nothing, and write
\* the local file only by the pull.
C7_UnidentifiedBlocked ==
    [][\A s \in Sessions :
          OnlySpaces(input'[s])
          => /\ pc'[s] \in {"closed", "download", "dl_write", "idle"}
             /\ annDf'[s] = NoDf
             /\ annLocal'[s] = NoDf
             /\ remainingIds'[s] = <<>>
             /\ msgs'[s] \subseteq {"login_warn"}
             /\ (pc'[s] # pc[s] /\ input'[s] = input[s])
                => /\ ssCurrentId'[s] = ssCurrentId[s]
                   /\ remoteFile' = remoteFile
                   /\ (localFile' = localFile \/ pc[s] = "dl_write")
      ]_vars

\* C7 witness: a session that had an item picked, then blanked its
\* username, waits at the login warning
C7_Witness ==
    \E s \in Sessions :
        /\ input[s] = <<SP>>
        /\ pc[s] = "idle"
        /\ msgs[s] = {"login_warn"}
        /\ ssCurrentId[s] \in IdSet

\* C8: when the held id is not a row of the freshly reloaded table, the
\* handler reports the internal error and returns: the local file, the
\* remote copy and current_id are unchanged, and the run ends without a save
\* or a push.
C8_NotFoundAborts ==
    [][\A s \in Sessions :
          /\ (pc[s] = "h_load" /\ pc'[s] # pc[s]
                /\ \A i \in DOMAIN SampleIds : SampleIds[i] # ssCurrentId[s])
             => /\ "err_id" \in msgs'[s]
                /\ pc'[s] = "idle"
                /\ ssCurrentId'[s] = ssCurrentId[s]
                /\ localFile' = localFile
                /\ remoteFile' = remoteFile
          /\ "err_id" \in msgs[s]
             => /\ pc'[s] = pc[s]
                /\ localFile' = localFile
                /\ remoteFile' = remoteFile
      ]_vars

\* C8 witness: the handler has reported the internal error for an id that
\* is no row of the table
C8_Witness ==
    \E s \in Sessions :
        /\ "err_id" \in msgs[s]
        /\ pc[s] = "idle"
        /\ ssCurrentId[s] \notin IdSet

\* the table t reconciled: one row per Sample id in Sample order, taken from
\* the first row of t with that id, all unset when t has none
Reconciled(t) ==
    Table(t.cols,
          [i \in DOMAIN SampleIds |->
              LET occ == {j \in DOMAIN t.rows : t.rows[j].ID = SampleIds[i]}
              IN IF occ = {}
                 THEN Row(SampleIds[i],
                          [c \in t.cols |-> IF c = GPT THEN Num(0) ELSE NA])
                 ELSE t.rows[CHOOSE j \in occ : \A x \in occ : j <= x]])

\* C9: round trip. save(t) followed by load() returns t reconciled:
\* duplicate ids reduced to their first row, rows of unknown ids removed,
\* one row per Sample id in Sample order, every cell of a kept row unchanged.
C9_RoundTrip == probePc = "loaded" => probeOut = Reconciled(probeIn)

\* C9 witness: a saved and reloaded table that had a duplicate id, an
\* unknown id and a label on the first row of a Sample id
C9_Witness ==
    /\ probePc = "loaded"
    /\ Len(probeIn.rows) = 3
    /\ probeIn.rows[1].ID = "42" /\ probeIn.rows[1].cells[UserA] = Num(1)
    /\ probeIn.rows[2].ID = "99"
    /\ probeIn.rows[3].ID = "42" /\ probeIn.rows[3].cells[UserA] = Num(0)

\* C10: pull is called once at process start, before any local load: over
\* any run of the server the download is called at most once, and no load
\* of the annotation table precedes it.
C10_PullOnceBeforeLoad == pulls <= 1 /\ ~loadedFirst

\* C11: a label that a click handler has saved stays in the local persisted
\* table: no later step (render, pull, push) of the server turns a set cell
\* of the local file back to unset, also when the push of that label failed.
C11_SavedLabelStays ==
    [][\A k \in IdSet \X Users :
          (~IsNA(firstLabel[k]) /\ ~IsNA(CellOf(localFile, k[1], k[2])))
          => ~IsNA(CellOf(localFile', k[1], k[2]))
      ]_vars

\* the cell of (id, u) in the table df held in memory; unset when df has no
\* column u
CellIn(df, id, u) ==
    IF u \in df.cols /\ Mask(df, id) # {} THEN CurrentVal(df, id, u) ELSE NA

\* C12: overlapping click handlers lose an update. When session t saves
\* while the file holds the label that session s has just saved (s has not
\* finished its push) and the table t reloaded did not hold that label yet
\* (t reloaded before s saved), the file after t's save is exactly the table
\* t wrote (last write wins): it holds t's label, and the label of s is
\* gone, for the same id as for different ids.
C12_LostUpdate ==
    [][\A s, t \in Sessions :
          (/\ s # t
           /\ pc[t] = "h_save" /\ pc'[t] = "upload"
           /\ pc[s] \in {"upload", "ul_send"}
           /\ <<ssCurrentId[s], username[s]>> # <<ssCurrentId[t], username[t]>>
           /\ IsNA(CellIn(annLocal[t], ssCurrentId[s], username[s]))
           /\ CellOf(localFile, ssCurrentId[s], username[s]) = clicked[s])
          => /\ localFile' = SaveAnnotations(annLocal[t])
             /\ IsNA(CellOf(localFile', ssCurrentId[s], username[s]))
             /\ CellOf(localFile', ssCurrentId[t], username[t]) = clicked[t]
      ]_vars

\* C12 witness: two users have clicked on the same id in overlapping
\* handlers; both have saved, and the label of the one that saved first is
\* no longer in the file
C12_Witness ==
    \E s, t \in Sessions :
        /\ s # t
        /\ pc[t] = "upload"
        /\ pc[s] \in {"upload", "ul_send"}
        /\ username[s] # username[t]
        /\ ssCurrentId[s] = ssCurrentId[t]
        /\ ~IsNA(firstLabel[<<ssCurrentId[s], username[s]>>])
        /\ IsNA(CellOf(localFile, ssCurrentId[s], username[s]))
        /\ ~IsNA(CellOf(localFile, ssCurrentId[t], username[t]))
        /\ IsNA(CellIn(annLocal[t], ssCurrentId[s], username[s]))
        /\ localFile = SaveAnnotations(annLocal[t])

\* C13: the reload before the write protects interactions that do not
\* overlap. When pulls and pushes succeed and no two click interactions
\* overlap, the file a handler saves holds every label that a click of
\* another user has written, with the value written.
C13_SequentialClicksKeepLabels ==
    [][\A t \in Sessions :
          (pc[t] = "h_save" /\ pc'[t] = "upload")
          => \A k \in IdSet \X Users :
                (k[2] # username[t] /\ ~IsNA(firstLabel[k]))
                => CellOf(localFile', k[1], k[2]) = firstLabel[k]
      ]_vars

\* C14 as stated: every activation of Yes or No that reaches the handler
\* performs the fresh load and set_label, then the save, then the push of the
\* table just saved, then clears current_id and starts the script again; the
\* save and the push happen on every activation.
C14_EveryClickSavesAndPushes ==
    [][\A s \in Sessions :
          /\ (pc[s] = "h_load" /\ pc'[s] # pc[s])
             => /\ pc'[s] = "h_save"
                /\ annLocal'[s] = SetLabel(ReloadForUser(localFile, username[s]),
                                           ssCurrentId[s], username[s],
                                           clicked[s][1])
          /\ (pc[s] = "h_save" /\ pc'[s] # pc[s])
             => /\ pc'[s] = "upload"
                /\ localFile' = SaveAnnotations(annLocal[s])
          /\ (pc[s] = "upload" /\ pc'[s] # pc[s])
             => /\ pc'[s] = "ul_send"
                /\ ulBuf'[s] = SaveAnnotations(annLocal[s])
          /\ (pc[s] = "ul_send" /\ pc'[s] # pc[s])
             => /\ pc'[s] = "download"
                /\ ssCurrentId'[s] = CurNone
                /\ remoteFile' \in {ulBuf[s], remoteFile}
      ]_vars

\* C14 amended: an activation that reaches the handler performs the fresh
\* load; when the cell is unset in that load it performs set_label, then the
\* save, then the push, then clears current_id and starts the script again:
\* the push never precedes the save and uploads the local file as it is when
\* the push reads it. When the cell is already set it performs neither save
\* nor push, and only clears current_id and starts the script again. Nothing
\* but a push writes the remote copy.
C14_ClickOrder ==
    [][/\ \A s \in Sessions :
          /\ (pc[s] = "h_load" /\ pc'[s] # pc[s])
             => /\ localFile' = localFile
                /\ remoteFile' = remoteFile
                /\ LET df == ReloadForUser(localFile, username[s])
                   IN IF IsNA(CellIn(df, ssCurrentId[s], username[s]))
                      THEN /\ pc'[s] = "h_save"
                           /\ annLocal'[s] = SetLabel(df, ssCurrentId[s],
                                                      username[s], clicked[s][1])
                           /\ ssCurrentId'[s] = ssCurrentId[s]
                      ELSE /\ pc'[s] = "download"
                           /\ ssCurrentId'[s] = CurNone
          /\ (pc[s] = "h_save" /\ pc'[s] # pc[s])
             => /\ pc'[s] = "upload"
                /\ localFile' = SaveAnnotations(annLocal[s])
                /\ remoteFile' = remoteFile
          /\ (pc[s] = "upload" /\ pc'[s] # pc[s])
             => /\ pc'[s] = "ul_send"
                /\ ulBuf'[s] = localFile
                /\ remoteFile' = remoteFile
          /\ (pc[s] = "ul_send" /\ pc'[s] # pc[s])
             => /\ pc'[s] = "download"
                /\ ssCurrentId'[s] = CurNone
                /\ remoteFile' \in {ulBuf[s], remoteFile}
                /\ localFile' = localFile
       /\ remoteFile' # remoteFile => \E s \in Sessions : pc[s] = "ul_send"
      ]_vars

\* C14 witness: a handler has found its cell already set: it made no save and
\* no push, cleared current_id and started the script again
C14_Witness ==
    \E s \in Sessions :
        /\ pc[s] = "download"
        /\ ssCurrentId[s] = CurNone
        /\ lastPush[s] = "skipped"
        /\ \E k \in IdSet \X Users :
              k[2] = Strip(input[s]) /\ ~IsNA(firstLabel[k])

C16_DefensiveBranchesDead ==
    \A s \in Sessions :
        /\ "err_id" \notin msgs[s]
        /\ "err_sample" \notin msgs[s]
        /\ pc[s] = "h_load"
           => /\ ~SampleMissing(ssCurrentId[s])
              /\ Mask(ReloadForUser(localFile, username[s]), ssCurrentId[s]) # {}

\* C16 witness: a click on "43" is about to be handled while the file on
\* disk has no row for "43" and has rows of ids unknown to the Sample store
C16_Witness ==
    \E s \in Sessions :
        /\ pc[s] = "h_load"
        /\ ssCurrentId[s] = "43"
        /\ localFile # Absent
        /\ \A i \in DOMAIN localFile.rows : localFile.rows[i].ID # "43"
        /\ \E i \in DOMAIN localFile.rows : localFile.rows[i].ID \notin IdSet

\* C17: frame of a click by user U on id X. The table the handler goes on to
\* save has the columns, the row ids and the row order of the table it
\* reloaded, and every cell of it other than (X, U) is the reloaded one;
\* (X, U) holds the clicked label; the file written reads back as that very
\* table. When (X, U) was already set, the step writes neither the local
\* file nor the remote copy and starts the script again.
C17_ClickFrame ==
    [][\A s \in Sessions :
          /\ (pc[s] = "h_load" /\ pc'[s] = "h_save")
             => LET df == ReloadForUser(localFile, username[s])
                    new == annLocal'[s]
                IN /\ new.cols = df.cols
                   /\ Ids(new) = Ids(df)
                   /\ \A i \in DOMAIN df.rows : \A c \in df.cols :
                         IF df.rows[i].ID = ssCurrentId[s] /\ c = username[s]
                         THEN /\ IsNA(df.rows[i].cells[c])
                              /\ new.rows[i].cells[c] = clicked[s]
                         ELSE new.rows[i].cells[c] = df.rows[i].cells[c]
                   /\ localFile' = localFile
                   /\ remoteFile' = remoteFile
          /\ (pc[s] = "h_save" /\ pc'[s] = "upload")
             => /\ LoadAnnotations(localFile') = annLocal[s]
                /\ remoteFile' = remoteFile
          /\ (pc[s] = "h_load" /\ pc'[s] \notin {"h_load", "h_save"})
             => /\ localFile' = localFile
                /\ remoteFile' = remoteFile
                /\ pc'[s] = "download"
                /\ ~IsNA(CellOf(localFile, ssCurrentId[s], username[s]))
      ]_vars

\* C17 witness: a click has been saved into a table that holds another
\* user's column with a label in it and an unset cell of the clicking user
C17_Witness ==
    \E s \in Sessions :
        /\ pc[s] = "upload"
        /\ localFile = SaveAnnotations(annLocal[s])
        /\ \E c \in annLocal[s].cols \ {GPT, username[s]} :
              \E i \in DOMAIN annLocal[s].rows :
                 ~IsNA(annLocal[s].rows[i].cells[c])
        /\ \E i \in DOMAIN annLocal[s].rows :
              IsNA(annLocal[s].rows[i].cells[username[s]])

\* the number of Sample ids that user u has labeled in file f
LabeledIn(f, u) == Cardinality({id \in IdSet : ~IsNA(CellOf(f, id, u))})

\* the number of cells of user u that a click has written
ClickedBy(u) == Cardinality({id \in IdSet : ~IsNA(firstLabel[<<id, u>>])})

=============================================================================
